---- MODULE Spec2Model ----
(***************************************************************************)
(* A model of the DQA backend (src/backend): the deviation engine          *)
(* (calculate_deviations), the severity classification at every call site, *)
(* and the store of facilities, indicators, sessions and lines as changed  *)
(* by seed_data, POST /sessions, CSV upload and session deletion.          *)
(*                                                                         *)
(* Numbers.  Counts and ratios are Python floats.  They are modelled as    *)
(* exact fractions in lowest terms with a positive denominator.  For the   *)
(* integer-valued counts drawn here x - r is exact and the correctly       *)
(* rounded quotient is the double nearest to the exact ratio; the literals *)
(* 0.05 and 0.10 are the doubles nearest to 1/20 and 1/10, and no other    *)
(* ratio of counts this small rounds onto them, so every comparison of the *)
(* code has the outcome of the exact comparison.                           *)
(***************************************************************************)
EXTENDS Integers, Sequences, FiniteSets, TLC

VARIABLES
    started,     \* store: main.py has been imported (tables created, seed_data run)
    facilities,  \* store: committed rows of table facilities
    indicators,  \* store: committed rows of table indicators
    sessions,    \* store: committed rows of table dqa_sessions
    lines,       \* store: committed rows of table dqa_lines
    txn,         \* the session row flushed but not yet committed by create_session
    pending,     \* the session dicts the running upload has still to create
    created,     \* the ids of the sessions the running upload has created
    response,    \* the last response sent
    request,     \* the file and the form field team of the upload being served
    issued,      \* history: the ids that rows of dqa_sessions and dqa_lines have held
    args,        \* engine: the triple handed to calculate_deviations
    devs,        \* engine: the triple it returned (<<>> before the call)
    fills,       \* engine: the band each call site gives each ratio
    coll,        \* aggregation: a collection of lines
    tally        \* aggregation: the counters computed over coll

engineVars == <<args, devs, fills>>
aggVars == <<coll, tally>>
storeVars == <<started, facilities, indicators, sessions, lines, txn, pending,
               created, response, request, issued>>
vars == <<started, facilities, indicators, sessions, lines, txn, pending,
          created, response, request, issued, args, devs, fills, coll, tally>>

-----------------------------------------------------------------------------
(* Optional floats *)

None == [tag |-> "None"]

ZeroDivisionError == [tag |-> "ZeroDivisionError"]

\* an exception leaving a function, in place of its return value
Raise(exc) == <<exc>>

Abs(i) == IF i < 0 THEN -i ELSE i

RECURSIVE GCD(_, _)
GCD(a, b) == IF b = 0 THEN a ELSE GCD(b, a % b)

\* the float n/d, d # 0, in lowest terms with a positive denominator
Float(n, d) ==
    LET g == GCD(Abs(n), Abs(d))
        s == IF d < 0 THEN -1 ELSE 1
    IN  [tag |-> "float", n |-> (s * n) \div g, d |-> (s * d) \div g]

IsFloat(x) == x.tag = "float"

\* Python: x in (None, 0)
InNoneOrZero(x) == x = None \/ (IsFloat(x) /\ x.n = 0)

\* Python: a - b
FSub(a, b) == Float(a.n * b.d - b.n * a.d, a.d * b.d)

\* Python: a / b; dividing by zero raises
FDiv(a, b) == IF b.n = 0 THEN ZeroDivisionError ELSE Float(a.n * b.d, a.d * b.n)

\* Python: abs(a)
FAbs(a) == [a EXCEPT !.n = Abs(a.n)]

\* Python: a > b and a <= b
FGt(a, b) == a.n * b.d > b.n * a.d
FLe(a, b) == a.n * b.d <= b.n * a.d

\* the literals 0.05 and 0.10
Lit005 == Float(1, 20)
Lit010 == Float(1, 10)

-----------------------------------------------------------------------------
(* The deviation engine: main.py calculate_deviations *)

\* variant: the denominators are tested with "is not None" only
calculate_deviations_NoZeroTest(recount_register, figure_105, figure_dhis2) ==
    LET dev_dhis2_vs_reg ==
            IF recount_register # None /\ figure_dhis2 # None
            THEN FDiv(FSub(figure_dhis2, recount_register), recount_register)
            ELSE None
        dev_105_vs_reg ==
            IF recount_register # None /\ figure_105 # None
            THEN FDiv(FSub(figure_105, recount_register), recount_register)
            ELSE None
        dev_105_vs_dhis2 ==
            IF figure_dhis2 # None /\ figure_105 # None
            THEN FDiv(FSub(figure_105, figure_dhis2), figure_dhis2)
            ELSE None
    IN  IF ZeroDivisionError \in {dev_dhis2_vs_reg, dev_105_vs_reg, dev_105_vs_dhis2}
        THEN Raise(ZeroDivisionError)
        ELSE <<dev_dhis2_vs_reg, dev_105_vs_reg, dev_105_vs_dhis2>>

\* variant: the first ratio subtracts the wrong way round
calculate_deviations_SwappedOperands(recount_register, figure_105, figure_dhis2) ==
    LET dev_dhis2_vs_reg ==
            IF ~InNoneOrZero(recount_register) /\ figure_dhis2 # None
            THEN FDiv(FSub(recount_register, figure_dhis2), recount_register)
            ELSE None
        dev_105_vs_reg ==
            IF ~InNoneOrZero(recount_register) /\ figure_105 # None
            THEN FDiv(FSub(figure_105, recount_register), recount_register)
            ELSE None
        dev_105_vs_dhis2 ==
            IF ~InNoneOrZero(figure_dhis2) /\ figure_105 # None
            THEN FDiv(FSub(figure_105, figure_dhis2), figure_dhis2)
            ELSE None
    IN  <<dev_dhis2_vs_reg, dev_105_vs_reg, dev_105_vs_dhis2>>

\* variant: the numerators are tested for truth, so a count of 0 reads as absent
calculate_deviations_TruthyNumerator(recount_register, figure_105, figure_dhis2) ==
    LET dev_dhis2_vs_reg ==
            IF ~InNoneOrZero(recount_register) /\ ~InNoneOrZero(figure_dhis2)
            THEN FDiv(FSub(figure_dhis2, recount_register), recount_register)
            ELSE None
        dev_105_vs_reg ==
            IF ~InNoneOrZero(recount_register) /\ ~InNoneOrZero(figure_105)
            THEN FDiv(FSub(figure_105, recount_register), recount_register)
            ELSE None
        dev_105_vs_dhis2 ==
            IF ~InNoneOrZero(figure_dhis2) /\ ~InNoneOrZero(figure_105)
            THEN FDiv(FSub(figure_105, figure_dhis2), figure_dhis2)
            ELSE None
    IN  <<dev_dhis2_vs_reg, dev_105_vs_reg, dev_105_vs_dhis2>>

calculate_deviations(recount_register, figure_105, figure_dhis2) ==
    LET dev_dhis2_vs_reg ==
            IF ~InNoneOrZero(recount_register) /\ figure_dhis2 # None
            THEN FDiv(FSub(figure_dhis2, recount_register), recount_register)
            ELSE None
        dev_105_vs_reg ==
            IF ~InNoneOrZero(recount_register) /\ figure_105 # None
            THEN FDiv(FSub(figure_105, recount_register), recount_register)
            ELSE None
        dev_105_vs_dhis2 ==
            IF ~InNoneOrZero(figure_dhis2) /\ figure_105 # None
            THEN FDiv(FSub(figure_105, figure_dhis2), figure_dhis2)
            ELSE None
    IN  IF ZeroDivisionError \in {dev_dhis2_vs_reg, dev_105_vs_reg, dev_105_vs_dhis2}
        THEN Raise(ZeroDivisionError)
        ELSE <<dev_dhis2_vs_reg, dev_105_vs_reg, dev_105_vs_dhis2>>

-----------------------------------------------------------------------------
(* Severity classification, one definition per call site *)

\* variant: the red test is abs_dev >= 0.10
SessionBand_InclusiveRed(dev) ==
    IF dev # None
    THEN IF ~FLe(FAbs(dev), Lit010) \/ FAbs(dev) = Lit010 THEN "red"
         ELSE IF FGt(FAbs(dev), Lit005) THEN "amber"
         ELSE "uncounted"
    ELSE "uncounted"

\* crud.py get_sessions: which counter a line's dev_dhis2_vs_reg increments
SessionBand(dev) ==
    IF dev # None
    THEN IF FGt(FAbs(dev), Lit010) THEN "red"
         ELSE IF FGt(FAbs(dev), Lit005) THEN "amber"
         ELSE "uncounted"
    ELSE "uncounted"

\* variant: an absent ratio is read as 0, abs(line.dev_dhis2_vs_reg or 0)
SummaryBand_AbsentAsZero(dev) ==
    IF dev = None THEN "green"
    ELSE IF FGt(FAbs(dev), Lit010) THEN "red"
    ELSE IF FGt(FAbs(dev), Lit005) THEN "amber"
    ELSE "green"

\* main.py generate_ai_summary: which counter a line's dev_dhis2_vs_reg increments
SummaryBand(dev) ==
    IF dev # None
    THEN IF FGt(FAbs(dev), Lit010) THEN "red"
         ELSE IF FGt(FAbs(dev), Lit005) THEN "amber"
         ELSE "green"
    ELSE "uncounted"

\* variant: the green test is abs_dev < 0.05
ExportFill_StrictGreen(value) ==
    IF value # None
    THEN IF FLe(FAbs(value), Lit005) /\ FAbs(value) # Lit005 THEN "green_fill"
         ELSE IF FLe(FAbs(value), Lit010) THEN "yellow_fill"
         ELSE "red_fill"
    ELSE "gray_fill"

\* main.py export_csv: the fill of a deviation cell
ExportFill(value) ==
    IF value # None
    THEN IF FLe(FAbs(value), Lit005) THEN "green_fill"
         ELSE IF FLe(FAbs(value), Lit010) THEN "yellow_fill"
         ELSE "red_fill"
    ELSE "gray_fill"

\* main.py export_session_csv: the fill of a deviation cell
ExportSessionFill(value) ==
    IF value # None
    THEN IF FLe(FAbs(value), Lit005) THEN "green_fill"
         ELSE IF FLe(FAbs(value), Lit010) THEN "yellow_fill"
         ELSE "red_fill"
    ELSE "gray_fill"

\* main.py generate_enhanced_report, sheet Detailed Data: the fill of a deviation cell
ReportFill(value) ==
    IF value # None
    THEN IF FLe(FAbs(value), Lit005) THEN "green_fill"
         ELSE IF FLe(FAbs(value), Lit010) THEN "yellow_fill"
         ELSE "red_fill"
    ELSE "gray_fill"

-----------------------------------------------------------------------------
(* The counters over a collection of lines *)

Count(band, wanted) == IF band = wanted THEN 1 ELSE 0

\* variant: the loop reads dev_105_vs_dhis2
RECURSIVE SessionCounts_OtherRatio(_)
SessionCounts_OtherRatio(session_lines) ==
    IF session_lines = <<>>
    THEN [line_count |-> 0, red_count |-> 0, amber_count |-> 0]
    ELSE LET n == Len(session_lines)
             before == SessionCounts_OtherRatio(SubSeq(session_lines, 1, n - 1))
             band == SessionBand(session_lines[n].dev_105_vs_dhis2)
         IN  [line_count |-> n,
              red_count |-> before.red_count + Count(band, "red"),
              amber_count |-> before.amber_count + Count(band, "amber")]

\* variant: the test for amber is an if of its own, not an elif, so a red line
\* is counted as amber too
RECURSIVE SessionCounts_BothBands(_)
SessionCounts_BothBands(session_lines) ==
    IF session_lines = <<>>
    THEN [line_count |-> 0, red_count |-> 0, amber_count |-> 0]
    ELSE LET n == Len(session_lines)
             before == SessionCounts_BothBands(SubSeq(session_lines, 1, n - 1))
             band == SessionBand(session_lines[n].dev_dhis2_vs_reg)
         IN  [line_count |-> n,
              red_count |-> before.red_count + Count(band, "red"),
              amber_count |-> before.amber_count + Count(band, "red")
                                  + Count(band, "amber")]

\* crud.py get_sessions: the loop over session.lines
RECURSIVE SessionCounts(_)
SessionCounts(session_lines) ==
    IF session_lines = <<>>
    THEN [line_count |-> 0, red_count |-> 0, amber_count |-> 0]
    ELSE LET n == Len(session_lines)
             before == SessionCounts(SubSeq(session_lines, 1, n - 1))
             band == SessionBand(session_lines[n].dev_dhis2_vs_reg)
         IN  [line_count |-> n,
              red_count |-> before.red_count + Count(band, "red"),
              amber_count |-> before.amber_count + Count(band, "amber")]

\* main.py generate_ai_summary: the loop over lines
RECURSIVE SummaryCounts(_)
SummaryCounts(all_lines) ==
    IF all_lines = <<>>
    THEN [red_count |-> 0, amber_count |-> 0, green_count |-> 0]
    ELSE LET n == Len(all_lines)
             before == SummaryCounts(SubSeq(all_lines, 1, n - 1))
             band == SummaryBand(all_lines[n].dev_dhis2_vs_reg)
         IN  [red_count |-> before.red_count + Count(band, "red"),
              amber_count |-> before.amber_count + Count(band, "amber"),
              green_count |-> before.green_count + Count(band, "green")]

\* the columns of a DqaLine that the engine fills, as a handler builds them
LineValues(recount_register, figure_105, figure_dhis2) ==
    LET d == calculate_deviations(recount_register, figure_105, figure_dhis2)
    IN  [recount_register |-> recount_register,
         figure_105 |-> figure_105,
         figure_dhis2 |-> figure_dhis2,
         dev_dhis2_vs_reg |-> d[1],
         dev_105_vs_reg |-> d[2],
         dev_105_vs_dhis2 |-> d[3]]

-----------------------------------------------------------------------------
(* The store: reference data and its seeding *)

\* an optional string that is present
Str(s) == [tag |-> "str", s |-> s]

\* Python truth of an optional string
Truthy(x) == x # None /\ x # Str("")

SetMax(S) == IF S = {} THEN 0 ELSE CHOOSE m \in S : \A x \in S : x <= m

Ids(rows) == {r.id : r \in rows}

\* the id an INSERT gets: models.py declares every id Column(Integer,
\* primary_key=True) and migrate_database speaks SQLite (PRAGMA table_info);
\* such a column is the rowid, one more than the largest id in the table
NewId(rows) == SetMax(Ids(rows)) + 1

\* Query.first(): the row with the least id, None when there is none
First(rows) ==
    IF rows = {} THEN None ELSE CHOOSE r \in rows : \A o \in rows : r.id <= o.id

\* the rows of table dqa_lines of one session, in id order (session.lines)
RECURSIVE InIdOrder(_)
InIdOrder(rows) ==
    IF rows = {} THEN <<>>
    ELSE LET r == First(rows) IN <<r>> \o InIdOrder(rows \ {r})

\* seed_data: the first three of the fifty facilities
facilities_data ==
    << [name |-> "Agoro Health Centre III", district |-> "Lamwo District",
        level |-> "HC III"],
       [name |-> "Akworo Health Centre III", district |-> "Lamwo District",
        level |-> "HC III"],
       [name |-> "Alero Health Centre III", district |-> "Nwoya District",
        level |-> "HC III"] >>

\* seed_data: the seven indicators
indicators_data ==
    << [code |-> "MA04", name |-> "Total deliveries in unit"],
       [code |-> "MA05a", name |-> "Live births <2.5 kg"],
       [code |-> "MA13", name |-> "Maternal deaths"],
       [code |-> "MA14",
        name |-> "Mothers who initiated breastfeeding within 1st hour after delivery"],
       [code |-> "MA23", name |-> "Babies with birth asphyxia"],
       [code |-> "MA24", name |-> "Babies successfully resuscitated"],
       [code |-> "MA08", name |-> "LBW babies <2.5 kg initiated on KMC"] >>

deprecated_codes ==
    {"AN01", "AN02", "AN11", "PN01", "MA22", "MA05b", "MA05c", "MA12"}

\* db.add of each entry of a list in turn, into a table holding rows
RECURSIVE AddAll(_, _)
AddAll(rows, data) ==
    IF data = <<>> THEN rows
    ELSE AddAll(rows \cup {[id |-> NewId(rows)] @@ Head(data)}, Tail(data))

\* variant: the indicators are added without the test that the table is empty
SeedIndicators_NoCountTest ==
    LET deprecated_indicators == {i \in indicators : i.code \in deprecated_codes}
    IN  AddAll(indicators \ deprecated_indicators, indicators_data)

\* seed_data: the tables as it commits them
SeedIndicators ==
    LET deprecated_indicators == {i \in indicators : i.code \in deprecated_codes}
        kept == indicators \ deprecated_indicators
    IN  IF kept = {} THEN AddAll(kept, indicators_data) ELSE kept

\* variant: the lines of the deprecated indicators are not deleted
SeedLines_KeepLines == lines

SeedLines ==
    LET indicator_ids == {i.id : i \in {d \in indicators : d.code \in deprecated_codes}}
    IN  {l \in lines : l.indicator_id \notin indicator_ids}

\* variant: the facilities are added without the test that the table is empty
SeedFacilities_NoCountTest == AddAll(facilities, facilities_data)

SeedFacilities ==
    IF facilities = {} THEN AddAll(facilities, facilities_data) ELSE facilities

\* a row of dqa_lines
LineRow(id, session_id, line_data) ==
    [id |-> id, session_id |-> session_id] @@ line_data

\* a row of dqa_sessions
SessionRow(id, session_data) == [id |-> id] @@ session_data

\* A database file an earlier deployment left behind: nothing at all, or the
\* seeded facilities, indicators that include MA12 (since deprecated) and one
\* session, with a line on MA12 and with or without a line on MA04.
LegacyIndicators ==
    { [id |-> 1, code |-> "MA04", name |-> "Total deliveries in unit"],
      [id |-> 2, code |-> "MA12", name |-> "Deprecated indicator MA12"],
      [id |-> 3, code |-> "MA05a", name |-> "Live births <2.5 kg"] }

LegacySession ==
    [id |-> 1, facility_id |-> 1, period |-> "2024-Q1", team |-> "Team A",
     comments |-> None]

LegacyLineMA04 ==
    LineRow(1, 1, [indicator_id |-> 1]
                  @@ LineValues(Float(100, 1), None, Float(110, 1)))

LegacyLineMA12 ==
    LineRow(2, 1, [indicator_id |-> 2]
                  @@ LineValues(Float(50, 1), None, Float(58, 1)))

LegacyDatabases ==
    { [facilities |-> {}, indicators |-> {}, sessions |-> {}, lines |-> {}],
      [facilities |-> AddAll({}, facilities_data), indicators |-> LegacyIndicators,
       sessions |-> {LegacySession}, lines |-> {LegacyLineMA04, LegacyLineMA12}],
      [facilities |-> AddAll({}, facilities_data), indicators |-> LegacyIndicators,
       sessions |-> {LegacySession}, lines |-> {LegacyLineMA12}] }

NoTxn == <<>>

NoResponse == [op |-> "none", status |-> 0, sessions |-> <<>>]

NoRequest == [csv_rows |-> <<>>, team |-> None]

\* the store untouched, for the specifications of the engine alone
StoreOff ==
    /\ started = FALSE
    /\ facilities = {}
    /\ indicators = {}
    /\ sessions = {}
    /\ lines = {}
    /\ txn = NoTxn
    /\ pending = <<>>
    /\ created = <<>>
    /\ response = NoResponse
    /\ request = NoRequest
    /\ issued = [sessions |-> {}, lines |-> {}]

-----------------------------------------------------------------------------
(* CSV upload: text conversions *)

\* str.strip() on the cell texts that occur here
Strip(s) ==
    CASE s = " " -> ""
      [] s = " MA04 " -> "MA04"
      [] s = " Lamwo District" -> "Lamwo District"
      [] OTHER -> s

\* str.upper() on the indicator names that occur here
Upper(s) ==
    CASE s \in {"COMMENTS", "comments", "Comments"} -> "COMMENTS"
      [] s = "Total deliveries in unit" -> "TOTAL DELIVERIES IN UNIT"
      [] s = "Live births <2.5 kg" -> "LIVE BIRTHS <2.5 KG"
      [] OTHER -> s

ValueError == [tag |-> "ValueError"]

\* float(text) on the cell texts that occur here; other text raises
ParseFloat(s) ==
    CASE s = "0" -> Float(0, 1)
      [] s = "45" -> Float(45, 1)
      [] s = "50" -> Float(50, 1)
      [] s = "58" -> Float(58, 1)
      [] s = "100" -> Float(100, 1)
      [] s = "110" -> Float(110, 1)
      [] s = "200" -> Float(200, 1)
      [] s = "12.5" -> Float(25, 2)
      [] OTHER -> ValueError

\* float(row.get(c, "")) if row.get(c, "").strip() else None
ParseCell(s) == IF Strip(s) # "" THEN ParseFloat(s) ELSE None

\* variant: the first COMMENTS row of a key is kept
RECURSIVE CommentsBySession_FirstWins(_)
CommentsBySession_FirstWins(csv_rows) ==
    IF csv_rows = <<>> THEN <<>>
    ELSE LET n == Len(csv_rows)
             before == CommentsBySession_FirstWins(SubSeq(csv_rows, 1, n - 1))
             row == csv_rows[n]
             text == Strip(row.recount_register)
             comment_text == IF text # "" THEN Str(text) ELSE None
             key == <<Strip(row.facility), Strip(row.district), Strip(row.period)>>
         IN  IF Upper(Strip(row.indicator_name)) = "COMMENTS"
             THEN before @@ (key :> comment_text)
             ELSE before

\* upload_csv, first pass: comments_by_session after the rows
RECURSIVE CommentsBySession(_)
CommentsBySession(csv_rows) ==
    IF csv_rows = <<>> THEN <<>>
    ELSE LET n == Len(csv_rows)
             before == CommentsBySession(SubSeq(csv_rows, 1, n - 1))
             row == csv_rows[n]
             indicator_name == Strip(row.indicator_name)
             text == Strip(row.recount_register)
             comment_text == IF text # "" THEN Str(text) ELSE None
             key == <<Strip(row.facility), Strip(row.district), Strip(row.period)>>
         IN  IF Upper(indicator_name) = "COMMENTS"
             THEN (key :> comment_text) @@ before
             ELSE before

\* variant: the rows are grouped by facility alone, whatever their period
KeyIndex_ByFacility(sessions_dict, key) ==
    LET at == {i \in 1..Len(sessions_dict) : sessions_dict[i].key[1] = key[1]}
    IN  IF at = {} THEN 0 ELSE CHOOSE i \in at : TRUE

\* the place of key in sessions_dict (insertion order), 0 when it is not there
KeyIndex(sessions_dict, key) ==
    LET at == {i \in 1..Len(sessions_dict) : sessions_dict[i].key = key}
    IN  IF at = {} THEN 0 ELSE CHOOSE i \in at : TRUE

\* variant: the report and system figures change places in the call of
\* calculate_deviations
UploadLine_SwappedFigures(indicator, recount_register, figure_105, figure_dhis2) ==
    LET deviations == calculate_deviations(recount_register, figure_dhis2, figure_105)
    IN  [indicator_id |-> indicator.id,
         recount_register |-> recount_register,
         figure_105 |-> figure_105,
         figure_dhis2 |-> figure_dhis2,
         dev_dhis2_vs_reg |-> deviations[1],
         dev_105_vs_reg |-> deviations[2],
         dev_105_vs_dhis2 |-> deviations[3]]

\* upload_csv: the dict appended to the lines of the row's session
UploadLine(indicator, recount_register, figure_105, figure_dhis2) ==
    LET deviations == calculate_deviations(recount_register, figure_105, figure_dhis2)
    IN  [indicator_id |-> indicator.id,
         recount_register |-> recount_register,
         figure_105 |-> figure_105,
         figure_dhis2 |-> figure_dhis2,
         dev_dhis2_vs_reg |-> deviations[1],
         dev_105_vs_reg |-> deviations[2],
         dev_105_vs_dhis2 |-> deviations[3]]

\* upload_csv, "Find facility": the first facility of that name and district
FindFacility(facility_name, district) ==
    First({f \in facilities : f.name = facility_name /\ f.district = district})

\* variant: the name is tried first, the code only when no name is given
FindIndicator_NameFirst(indicator_code, indicator_name) ==
    IF indicator_name # ""
    THEN First({i \in indicators : i.name = indicator_name})
    ELSE IF indicator_code # ""
    THEN First({i \in indicators : i.code = indicator_code})
    ELSE None

\* variant: a code that finds nothing falls back on the name
FindIndicator_NameAfterCode(indicator_code, indicator_name) ==
    LET by_code == First({i \in indicators : i.code = indicator_code})
    IN  IF indicator_code # "" /\ by_code # None THEN by_code
        ELSE IF indicator_name # ""
        THEN First({i \in indicators : i.name = indicator_name})
        ELSE None

\* upload_csv, "Find indicator": by code (get_indicator_by_code) when the row
\* has one, else by name when it has one
FindIndicator(indicator_code, indicator_name) ==
    IF indicator_code # ""
    THEN First({i \in indicators : i.code = indicator_code})
    ELSE IF indicator_name # ""
    THEN First({i \in indicators : i.name = indicator_name})
    ELSE None

\* variant: the team column of the row is preferred to the form field
AssignedTeam_ColumnFirst(team, row_team) ==
    IF Strip(row_team) # "" THEN Strip(row_team)
    ELSE IF Truthy(team) THEN team.s
    ELSE "csv_upload"

\* upload_csv: team or row.get("team", "").strip() or "csv_upload"
AssignedTeam(team, row_team) ==
    IF Truthy(team) THEN team.s
    ELSE IF Strip(row_team) # "" THEN Strip(row_team)
    ELSE "csv_upload"

HTTPException(status_code) == [status |-> status_code, sessions_dict |-> <<>>]

\* upload_csv, second pass: sessions_dict after the rows, or the failure that
\* ended the pass (400 for a row that names no facility or no indicator, 500
\* for a count that float() rejects)
RECURSIVE SecondPass(_, _, _)
SecondPass(csv_rows, team, comments_by_session) ==
    IF csv_rows = <<>> THEN [status |-> 200, sessions_dict |-> <<>>]
    ELSE
    LET n == Len(csv_rows)
        before == SecondPass(SubSeq(csv_rows, 1, n - 1), team, comments_by_session)
        row == csv_rows[n]
        facility_name == Strip(row.facility)
        district == Strip(row.district)
        period == Strip(row.period)
        indicator_code == Strip(row.indicator_code)
        indicator_name == Strip(row.indicator_name)
        facility == FindFacility(facility_name, district)
        indicator == FindIndicator(indicator_code, indicator_name)
        key == <<facility.id, period>>
        assigned_team == AssignedTeam(team, row.team)
        comment_key == <<facility_name, district, period>>
        session_comments ==
            IF comment_key \in DOMAIN comments_by_session
            THEN comments_by_session[comment_key] ELSE None
        dict == IF KeyIndex(before.sessions_dict, key) = 0
                THEN Append(before.sessions_dict,
                            [key |-> key,
                             facility_id |-> facility.id,
                             period |-> period,
                             team |-> assigned_team,
                             comments |-> session_comments,
                             lines |-> <<>>])
                ELSE before.sessions_dict
        at == KeyIndex(dict, key)
        recount_register == ParseCell(row.recount_register)
        figure_105 == ParseCell(row.figure_105)
        figure_dhis2 == ParseCell(row.figure_dhis2)
        deviations == calculate_deviations(recount_register, figure_105, figure_dhis2)
        line == UploadLine(indicator, recount_register, figure_105, figure_dhis2)
    IN  IF before.status # 200 THEN before
        ELSE IF Upper(indicator_name) = "COMMENTS" THEN before
        ELSE IF facility = None THEN HTTPException(400)
        ELSE IF indicator = None THEN HTTPException(400)
        ELSE IF ValueError \in {recount_register, figure_105, figure_dhis2}
             THEN HTTPException(500)
        ELSE IF Len(deviations) # 3 THEN HTTPException(500)
        ELSE [status |-> 200,
              sessions_dict |-> [dict EXCEPT ![at].lines = Append(@, line)]]

-----------------------------------------------------------------------------
(* The store: bounds and the requests drawn *)

\* rows of an uploaded file, and lines of a POST body
MaxRows == 2

\* no line id above this is issued
MaxLineId == 2

\* rows of the file of the one upload of UploadSpec
MaxFileRows == 3

CsvRow(facility, district, period, indicator_code, indicator_name, team,
       recount_register, figure_105, figure_dhis2) ==
    [facility |-> facility, district |-> district, period |-> period,
     indicator_code |-> indicator_code, indicator_name |-> indicator_name,
     team |-> team, recount_register |-> recount_register,
     figure_105 |-> figure_105, figure_dhis2 |-> figure_dhis2]

\* the rows a file is made of, one for each case of upload_csv
CsvRows ==
    { \* by code (padded), team column set: register 50, system 58
      CsvRow("Agoro Health Centre III", "Lamwo District", "2024-Q1", " MA04 ", "",
             "Team A", "50", "", "58"),
      \* by name, same facility and period: register 0, report 45, system 50
      CsvRow("Agoro Health Centre III", " Lamwo District", "2024-Q1", "",
             "Live births <2.5 kg", "", "0", "45", "50"),
      \* another facility, blank report cell: register 100, system 110
      CsvRow("Alero Health Centre III", "Nwoya District", "2024-Q1", "MA04",
             "Total deliveries in unit", "", "100", " ", "110"),
      \* the first facility in another period: 200, 200, 200
      CsvRow("Agoro Health Centre III", "Lamwo District", "2024-Q2", "MA05a", "",
             "", "200", "200", "200"),
      \* comments for the first facility and period, twice, once with a team
      CsvRow("Agoro Health Centre III", "Lamwo District", "2024-Q1", "", "COMMENTS",
             "", "Register incomplete", "", ""),
      CsvRow("Agoro Health Centre III", "Lamwo District", "2024-Q1", "", "comments",
             "Team C", "Recount repeated", "", ""),
      \* comments for the first facility and period whose text is blank
      CsvRow("Agoro Health Centre III", "Lamwo District", "2024-Q1", "", "COMMENTS",
             "", " ", "", ""),
      \* comments for a facility that does not exist
      CsvRow("Nowhere Health Centre", "Lamwo District", "2024-Q1", "", "Comments",
             "", "", "", ""),
      \* a name and a district that both exist, but not together
      CsvRow("Agoro Health Centre III", "Nwoya District", "2024-Q1", "MA04", "",
             "", "50", "", "58"),
      \* an unknown code beside a known name
      CsvRow("Agoro Health Centre III", "Lamwo District", "2024-Q1", "ZZ99",
             "Total deliveries in unit", "", "50", "", "58"),
      \* neither code nor name
      CsvRow("Agoro Health Centre III", "Lamwo District", "2024-Q1", "", "",
             "", "50", "", "58"),
      \* a count that is no number
      CsvRow("Agoro Health Centre III", "Lamwo District", "2024-Q1", "MA04", "",
             "", "n/a", "", "58") }

SeqsUpTo(S, n) == UNION {[1..k -> S] : k \in 0..n}

\* the form field team: not sent, sent empty, sent
TeamParams == {None, Str(""), Str("Team B")}

\* the uploads drawn while requests interleave: files of the first three rows
\* (two of one facility and period, one of another facility) and of the row
\* whose facility does not exist, sent without the form field team
StoreCsvRows ==
    {r \in CsvRows :
        /\ r.indicator_code \in {" MA04 ", "MA04", ""}
        /\ Upper(r.indicator_name) # "COMMENTS"
        /\ r.recount_register # "n/a"
        /\ r.indicator_code # "" \/ r.indicator_name # ""}

StoreCsvFiles == SeqsUpTo(StoreCsvRows, MaxRows)

\* the lines of a POST body: an indicator that exists or not
PostLines ==
    [indicator_id : {1, 9}, recount_register : {Float(50, 1)},
     figure_105 : {None}, figure_dhis2 : {Float(58, 1)}]

\* the JSON bodies of POST /sessions: a facility that exists or not
PostBodies ==
    [facility_id : {1, 9}, period : {"2024-Q1"}, team : {"Team A"},
     comments : {None, Str("Visit postponed")}, lines : SeqsUpTo(PostLines, MaxRows)]

-----------------------------------------------------------------------------
(* The store: handlers *)

\* schemas.py DqaSessionCreate: the fields the parsed body has; pydantic drops
\* every other key of the JSON body
DqaSessionCreateFields == {"facility_id", "period", "team", "lines"}

DqaSessionCreate(body) == [f \in DqaSessionCreateFields |-> body[f]]

HasAttr(obj, name) == name \in DOMAIN obj

Respond(op, status, ids) == [op |-> op, status |-> status, sessions |-> ids]

\* create_dqa_session, the loop over session_data.lines: lines_list, or the
\* 404 raised at the first line whose indicator does not exist
RECURSIVE PrepareLines(_)
PrepareLines(body_lines) ==
    IF body_lines = <<>> THEN [status |-> 200, lines_list |-> <<>>]
    ELSE LET n == Len(body_lines)
             before == PrepareLines(SubSeq(body_lines, 1, n - 1))
             line == body_lines[n]
             indicator == First({i \in indicators : i.id = line.indicator_id})
         IN  IF before.status # 200 THEN before
             ELSE IF indicator = None THEN [status |-> 404, lines_list |-> <<>>]
             ELSE [status |-> 200,
                   lines_list |-> Append(before.lines_list,
                       [indicator_id |-> line.indicator_id]
                       @@ LineValues(line.recount_register, line.figure_105,
                                     line.figure_dhis2))]

\* db.add of each entry of lines_data in turn (crud.py create_session)
RECURSIVE AddLines(_, _, _)
AddLines(rows, session_id, lines_data) ==
    IF lines_data = <<>> THEN rows
    ELSE AddLines(rows \cup {LineRow(NewId(rows), session_id, Head(lines_data))},
                  session_id, Tail(lines_data))

RECURSIVE TotalLines(_)
TotalLines(queue) ==
    IF queue = <<>> THEN 0 ELSE Len(Head(queue).lines_data) + TotalLines(Tail(queue))

\* the line ids the queue needs stay within the bound
WithinBounds(queue) == NewId(lines) + TotalLines(queue) - 1 <= MaxLineId

Idle == pending = <<>> /\ txn = NoTxn

\* the state before main.py is imported
Init ==
    /\ started = FALSE
    /\ \E db \in LegacyDatabases :
           /\ facilities = db.facilities
           /\ indicators = db.indicators
           /\ sessions = db.sessions
           /\ lines = db.lines
           /\ issued = [sessions |-> Ids(db.sessions), lines |-> Ids(db.lines)]
    /\ txn = NoTxn
    /\ pending = <<>>
    /\ created = <<>>
    /\ response = NoResponse
    /\ request = NoRequest
    /\ args = [recount_register |-> None, figure_105 |-> None, figure_dhis2 |-> None]
    /\ devs = <<>>
    /\ fills = <<>>
    /\ coll = <<>>
    /\ tally = <<>>

\* main.py seed_data, run when the module is imported (a start or a restart)
SeedData ==
    /\ Idle
    /\ started' = TRUE
    /\ lines' = SeedLines
    /\ indicators' = SeedIndicators
    /\ facilities' = SeedFacilities
    /\ UNCHANGED <<sessions, txn, pending, created, response, request,
                   issued, engineVars, aggVars>>

\* POST /sessions: create_dqa_session up to its call of create_session
PostSessions(body) ==
    LET session_data == DqaSessionCreate(body)
        facility == First({f \in facilities : f.id = session_data.facility_id})
        prepared == PrepareLines(session_data.lines)
        queue == << [op |-> "create_dqa_session",
                     session_data |-> [facility_id |-> session_data.facility_id,
                                       period |-> session_data.period,
                                       team |-> session_data.team,
                                       comments |-> session_data.comments],
                     lines_data |-> prepared.lines_list] >>
    IN  /\ started
        /\ Idle
        /\ IF facility = None
           THEN /\ response' = Respond("create_dqa_session", 404, <<>>)
                /\ UNCHANGED pending
           ELSE IF ~HasAttr(session_data, "comments")
           THEN \* AttributeError at session_data.comments
                /\ response' = Respond("create_dqa_session", 500, <<>>)
                /\ UNCHANGED pending
           ELSE IF prepared.status # 200
           THEN /\ response' = Respond("create_dqa_session", 404, <<>>)
                /\ UNCHANGED pending
           ELSE /\ WithinBounds(queue)
                /\ pending' = queue
                /\ UNCHANGED response
        /\ UNCHANGED <<started, facilities, indicators, sessions, lines, txn,
                       created, request, issued, engineVars, aggVars>>

\* the create_session calls of upload_csv, in the order of sessions_dict.values()
UploadQueue(sessions_dict) ==
    [i \in 1..Len(sessions_dict) |->
        [op |-> "upload_csv",
         session_data |-> [facility_id |-> sessions_dict[i].facility_id,
                           period |-> sessions_dict[i].period,
                           team |-> sessions_dict[i].team,
                           comments |-> sessions_dict[i].comments],
         lines_data |-> sessions_dict[i].lines]]

\* POST /sessions/upload-csv: upload_csv up to its first call of create_session
UploadCsv(csv_rows, team) ==
    LET passed == SecondPass(csv_rows, team, CommentsBySession(csv_rows))
        queue == UploadQueue(passed.sessions_dict)
    IN  /\ started
        /\ Idle
        /\ IF passed.status # 200
           THEN /\ response' = Respond("upload_csv", passed.status, <<>>)
                /\ UNCHANGED <<pending, request>>
           ELSE IF queue = <<>>
           THEN /\ response' = Respond("upload_csv", 200, <<>>)
                /\ UNCHANGED <<pending, request>>
           ELSE /\ WithinBounds(queue)
                /\ pending' = queue
                /\ request' = [csv_rows |-> csv_rows, team |-> team]
                /\ UNCHANGED response
        /\ UNCHANGED <<started, facilities, indicators, sessions, lines, txn,
                       created, issued, engineVars, aggVars>>

\* variant: the session row is committed where it is flushed
CreateSessionFlush_Commit ==
    /\ pending # <<>>
    /\ txn = NoTxn
    /\ txn' = <<SessionRow(NewId(sessions), Head(pending).session_data)>>
    /\ sessions' = sessions \cup {SessionRow(NewId(sessions), Head(pending).session_data)}
    /\ UNCHANGED <<started, facilities, indicators, lines, pending,
                   created, response, request, issued, engineVars, aggVars>>

\* crud.py create_session up to db.flush(): the session row is inserted in the
\* open transaction and has its id; other requests do not see it
CreateSessionFlush ==
    /\ pending # <<>>
    /\ txn = NoTxn
    /\ txn' = <<SessionRow(NewId(sessions), Head(pending).session_data)>>
    /\ UNCHANGED <<started, facilities, indicators, sessions, lines, pending,
                   created, response, request, issued, engineVars, aggVars>>

\* variant: the lines go to a session already stored for the same facility and
\* period, when there is one, and no new session row is committed
CreateSessionCommit_Merge ==
    /\ txn # NoTxn
    /\ LET session == txn[1]
           same == {s \in sessions : /\ s.facility_id = session.facility_id
                                     /\ s.period = session.period}
           target == IF same = {} THEN session ELSE CHOOSE s \in same : TRUE
           ids == Append(created, target.id)
       IN  /\ sessions' = sessions \cup {target}
           /\ lines' = AddLines(lines, target.id, Head(pending).lines_data)
           /\ txn' = NoTxn
           /\ pending' = Tail(pending)
           /\ IF Tail(pending) = <<>>
              THEN /\ response' = Respond(Head(pending).op, 200, ids)
                   /\ created' = <<>>
                   /\ request' = NoRequest
              ELSE /\ created' = ids
                   /\ UNCHANGED <<response, request>>
           /\ issued' = [sessions |-> issued.sessions \cup Ids(sessions'),
                         lines |-> issued.lines \cup Ids(lines')]
    /\ UNCHANGED <<started, facilities, indicators, engineVars, aggVars>>

\* crud.py create_session from the loop over lines_data to db.commit(); the
\* handler then goes on to its next session or responds
CreateSessionCommit ==
    /\ txn # NoTxn
    /\ LET session == txn[1]
           ids == Append(created, session.id)
       IN  /\ sessions' = sessions \cup {session}
           /\ lines' = AddLines(lines, session.id, Head(pending).lines_data)
           /\ txn' = NoTxn
           /\ pending' = Tail(pending)
           /\ IF Tail(pending) = <<>>
              THEN /\ response' = Respond(Head(pending).op, 200, ids)
                   /\ created' = <<>>
                   /\ request' = NoRequest
              ELSE /\ created' = ids
                   /\ UNCHANGED <<response, request>>
           /\ issued' = [sessions |-> issued.sessions \cup Ids(sessions'),
                         lines |-> issued.lines \cup Ids(lines')]
    /\ UNCHANGED <<started, facilities, indicators, engineVars, aggVars>>

\* variant: the relationship declares no cascade, the lines stay
CascadeDelete_None(session_id) == lines

\* models.py DqaSession.lines, cascade="all, delete-orphan": the lines left
\* when the ORM deletes the session
CascadeDelete(session_id) == {l \in lines : l.session_id # session_id}

\* DELETE /sessions/{session_id}: delete_dqa_session; crud.delete_session is
\* not among the sources, and is taken to delete the session through the ORM,
\* whose cascade (models.py DqaSession.lines) deletes its lines with it
DeleteSession(session_id) ==
    LET session == First({s \in sessions : s.id = session_id})
    IN  /\ started
        /\ txn = NoTxn
        /\ IF session = None
           THEN /\ response' = Respond("delete_dqa_session", 404, <<>>)
                /\ UNCHANGED <<sessions, lines>>
           ELSE /\ sessions' = sessions \ {session}
                /\ lines' = CascadeDelete(session_id)
                /\ response' = Respond("delete_dqa_session", 200, <<>>)
        /\ UNCHANGED <<started, facilities, indicators, txn, pending, created,
                       request, issued, engineVars, aggVars>>

\* variant: each session's counts are taken over the lines of every session
get_sessions_EveryLine ==
    LET all == InIdOrder(sessions)
    IN  [i \in 1..Len(all) |->
            LET session == all[i]
                facility == First({f \in facilities : f.id = session.facility_id})
                counts == SessionCounts(InIdOrder(lines))
            IN  [id |-> session.id,
                 facility_id |-> session.facility_id,
                 period |-> session.period,
                 team |-> session.team,
                 facility_name |-> facility.name,
                 district |-> facility.district,
                 line_count |-> counts.line_count,
                 red_count |-> counts.red_count,
                 amber_count |-> counts.amber_count]]

\* crud.py get_sessions: the summaries, as a GET /sessions reads them from the
\* committed rows
get_sessions ==
    LET all == InIdOrder(sessions)
    IN  [i \in 1..Len(all) |->
            LET session == all[i]
                facility == First({f \in facilities : f.id = session.facility_id})
                counts == SessionCounts(
                              InIdOrder({l \in lines : l.session_id = session.id}))
            IN  [id |-> session.id,
                 facility_id |-> session.facility_id,
                 period |-> session.period,
                 team |-> session.team,
                 facility_name |-> facility.name,
                 district |-> facility.district,
                 line_count |-> counts.line_count,
                 red_count |-> counts.red_count,
                 amber_count |-> counts.amber_count]]

\* SELECT DISTINCT over a column: the values in the order met, each once
RECURSIVE Distinct(_)
Distinct(values) ==
    IF values = <<>> THEN <<>>
    ELSE LET n == Len(values)
             before == Distinct(SubSeq(values, 1, n - 1))
         IN  IF \E k \in 1..Len(before) : before[k] = values[n]
             THEN before
             ELSE Append(before, values[n])

\* variant: assessed_facilities counts the facility ids without DISTINCT
get_dashboard_stats_NotDistinct ==
    LET all == InIdOrder(sessions)
        facility_ids == [k \in 1..Len(all) |-> all[k].facility_id]
        teams == Distinct([k \in 1..Len(all) |-> all[k].team])
        OfTeam(team) == SelectSeq(all, LAMBDA s : s.team = team)
        team_stats ==
            [t \in 1..Len(teams) |->
                <<teams[t],
                  Len(Distinct([k \in 1..Len(OfTeam(teams[t])) |->
                                   OfTeam(teams[t])[k].facility_id]))>>]
    IN  [total_facilities |-> Cardinality(facilities),
         assessed_facilities |-> Len(facility_ids),
         total_sessions |-> Len(all),
         team_progress |->
             [t \in 1..Len(team_stats) |->
                 [team |-> IF team_stats[t][1] # "" THEN team_stats[t][1]
                           ELSE "Unknown",
                  facilities_assessed |-> team_stats[t][2]]]]

\* crud.py get_dashboard_stats, as a GET reads it from the committed rows
get_dashboard_stats ==
    LET all == InIdOrder(sessions)
        facility_ids == [k \in 1..Len(all) |-> all[k].facility_id]
        teams == Distinct([k \in 1..Len(all) |-> all[k].team])
        OfTeam(team) == SelectSeq(all, LAMBDA s : s.team = team)
        team_stats ==
            [t \in 1..Len(teams) |->
                <<teams[t],
                  Len(Distinct([k \in 1..Len(OfTeam(teams[t])) |->
                                   OfTeam(teams[t])[k].facility_id]))>>]
    IN  [total_facilities |-> Cardinality(facilities),
         assessed_facilities |-> Len(Distinct(facility_ids)),
         total_sessions |-> Len(all),
         team_progress |->
             [t \in 1..Len(team_stats) |->
                 [team |-> IF team_stats[t][1] # "" THEN team_stats[t][1]
                           ELSE "Unknown",
                  facilities_assessed |-> team_stats[t][2]]]]

Next ==
    \/ SeedData
    \/ \E body \in PostBodies : PostSessions(body)
    \/ \E csv_rows \in StoreCsvFiles : UploadCsv(csv_rows, None)
    \/ CreateSessionFlush
    \/ CreateSessionCommit
    \/ \E session_id \in Ids(sessions) \cup {NewId(sessions)} :
           DeleteSession(session_id)

Spec == Init /\ [][Next]_vars

-----------------------------------------------------------------------------
(* One upload on its own: a single request on its way in, drawn from every *)
(* file of CsvRows and every value of the form field team, against the     *)
(* store as seed_data leaves a new database, or that store with one        *)
(* session of the first facility whose lines seed_data has deleted.        *)

UploadInit ==
    /\ started = TRUE
    /\ facilities = AddAll({}, facilities_data)
    /\ indicators = AddAll({}, indicators_data)
    /\ sessions \in {{}, {LegacySession}}
    /\ lines = {}
    /\ issued = [sessions |-> Ids(sessions), lines |-> {}]
    /\ txn = NoTxn
    /\ pending = <<>>
    /\ created = <<>>
    /\ response = NoResponse
    /\ request \in [csv_rows : SeqsUpTo(CsvRows, MaxFileRows), team : TeamParams]
    /\ args = [recount_register |-> None, figure_105 |-> None, figure_dhis2 |-> None]
    /\ devs = <<>>
    /\ fills = <<>>
    /\ coll = <<>>
    /\ tally = <<>>

\* the request is received, once
UploadOnce ==
    /\ response = NoResponse
    /\ UploadCsv(request.csv_rows, request.team)

UploadNext == UploadOnce \/ CreateSessionFlush \/ CreateSessionCommit

UploadSpec == UploadInit /\ [][UploadNext]_vars

-----------------------------------------------------------------------------
(* Bounds of the inputs drawn for the engine *)

MaxDelta == 3

\* counts around 20, where the ratios 0.05, 0.10 and 0.15 occur, with 0 and a
\* negative count
CountValues == {-20, 0} \cup {20 + k : k \in (-MaxDelta)..MaxDelta}

OptionalFloat == {None} \cup {Float(c, 1) : c \in CountValues}

-----------------------------------------------------------------------------
(* The engine on its own: one call of calculate_deviations on drawn        *)
(* arguments, then the classification of its three results at every site.  *)

EngineInit ==
    /\ args \in [recount_register : OptionalFloat, figure_105 : OptionalFloat,
                 figure_dhis2 : OptionalFloat]
    /\ devs = <<>>
    /\ fills = <<>>
    /\ coll = <<>>
    /\ tally = <<>>
    /\ StoreOff

Calculate ==
    /\ devs = <<>>
    /\ devs' = calculate_deviations(args.recount_register, args.figure_105,
                                    args.figure_dhis2)
    /\ UNCHANGED <<args, fills, aggVars, storeVars>>

\* reached only when calculate_deviations returned
Classify ==
    /\ Len(devs) = 3
    /\ fills = <<>>
    /\ fills' = [i \in 1..3 |->
                   [get_sessions |-> SessionBand(devs[i]),
                    generate_ai_summary |-> SummaryBand(devs[i]),
                    export_csv |-> ExportFill(devs[i]),
                    export_session_csv |-> ExportSessionFill(devs[i]),
                    generate_enhanced_report |-> ReportFill(devs[i])]]
    /\ UNCHANGED <<args, devs, aggVars, storeVars>>

EngineNext == Calculate \/ Classify

EngineSpec == EngineInit /\ [][EngineNext]_vars

-----------------------------------------------------------------------------
(* Claims about the engine, checked under EngineSpec *)

Zero == Float(0, 1)

AbsentOrZero(x) == x = None \/ x = Zero

Returned == Len(devs) = 3

\* q is the float (x - r) / r, by cross-multiplication
IsRatioOf(q, x, r) ==
    /\ IsFloat(q)
    /\ q.d > 0
    /\ q.n * (x.d * r.n) = (x.n * r.d - r.n * x.d) * q.d

\* C2: whenever a ratio's denominator is absent or zero the call returns
\* (does not raise), every result is absent or a finite float, and that ratio
\* is absent: the first two for recount_register, the third for figure_dhis2,
\* whatever the numerator is.
C2_AbsentDenominator ==
    devs # <<>> =>
        /\ Returned
        /\ \A i \in 1..3 : devs[i] = None \/ (IsFloat(devs[i]) /\ devs[i].d > 0)
        /\ AbsentOrZero(args.recount_register) => devs[1] = None /\ devs[2] = None
        /\ AbsentOrZero(args.figure_dhis2) => devs[3] = None

\* a zero denominator under a present numerator, after the call
C2_Witness ==
    /\ devs # <<>>
    /\ args.recount_register = Zero
    /\ args.figure_dhis2 = Float(20, 1)
    /\ args.figure_105 = Float(21, 1)

\* C3: with both operands present and the denominator non-zero each ratio is
\* present and is exactly (x - r) / r for its own operand pair, 0 when x = r,
\* and the third ratio is the same for every recount_register.
C3_ExactRatio ==
    devs # <<>> =>
        LET rr == args.recount_register
            f105 == args.figure_105
            fd == args.figure_dhis2
        IN  /\ Returned
            /\ (fd # None /\ ~AbsentOrZero(rr)) =>
                   /\ IsRatioOf(devs[1], fd, rr)
                   /\ (fd = rr => devs[1] = Zero)
            /\ (f105 # None /\ ~AbsentOrZero(rr)) =>
                   /\ IsRatioOf(devs[2], f105, rr)
                   /\ (f105 = rr => devs[2] = Zero)
            /\ (f105 # None /\ ~AbsentOrZero(fd)) =>
                   /\ IsRatioOf(devs[3], f105, fd)
                   /\ (f105 = fd => devs[3] = Zero)
            /\ \A other \in OptionalFloat :
                   calculate_deviations(other, f105, fd)[3] = devs[3]

\* register 20, system 22: the ratio 0.10
C3_Witness ==
    /\ devs # <<>>
    /\ args.recount_register = Float(20, 1)
    /\ args.figure_dhis2 = Float(22, 1)
    /\ devs[1] = Float(1, 10)

\* C4: an absent numerator gives an absent ratio whatever the denominator is,
\* and a numerator of 0 is a count like any other: its ratio is present.
C4_AbsentNumerator ==
    devs # <<>> =>
        LET rr == args.recount_register
            f105 == args.figure_105
            fd == args.figure_dhis2
        IN  /\ Returned
            /\ fd = None => devs[1] = None
            /\ f105 = None => devs[2] = None /\ devs[3] = None
            /\ (fd = Zero /\ ~AbsentOrZero(rr)) => devs[1] = Float(-1, 1)
            /\ (f105 = Zero /\ ~AbsentOrZero(rr)) => devs[2] = Float(-1, 1)
            /\ (f105 = Zero /\ ~AbsentOrZero(fd)) => devs[3] = Float(-1, 1)

\* the report figure absent under present non-zero denominators
C4_Witness ==
    /\ devs # <<>>
    /\ args.figure_105 = None
    /\ args.recount_register = Float(20, 1)
    /\ args.figure_dhis2 = Float(21, 1)
    /\ devs[2] = None
    /\ devs[3] = None

\* the three bands of |q|, by cross-multiplication with 1/20 and 1/10
IsLow(q) == 20 * Abs(q.n) <= q.d
IsMedium(q) == 20 * Abs(q.n) > q.d /\ 10 * Abs(q.n) <= q.d
IsHigh(q) == 10 * Abs(q.n) > q.d

ExportSites == {"export_csv", "export_session_csv", "generate_enhanced_report"}

\* C5: in each of the three export writers a present ratio is filled green
\* when |ratio| <= 0.05, yellow when 0.05 < |ratio| <= 0.10 and red when
\* |ratio| > 0.10, and an absent ratio is filled grey.
C5_ExportBands ==
    fills # <<>> =>
        \A i \in 1..3 : \A site \in ExportSites :
            fills[i][site] = IF devs[i] = None THEN "gray_fill"
                             ELSE IF IsLow(devs[i]) THEN "green_fill"
                             ELSE IF IsMedium(devs[i]) THEN "yellow_fill"
                             ELSE "red_fill"

\* register 20, system 21, report 18: exactly 0.05 is green, exactly -0.10 is
\* yellow, -1/7 is red
C5_Witness ==
    /\ fills # <<>>
    /\ devs = <<Float(1, 20), Float(-1, 10), Float(-1, 7)>>
    /\ \A site \in ExportSites :
           /\ fills[1][site] = "green_fill"
           /\ fills[2][site] = "yellow_fill"
           /\ fills[3][site] = "red_fill"

\* C6: for every present ratio the counter get_sessions increments, the
\* counter generate_ai_summary increments and the fill of each export writer
\* name the same band.
C6_SitesAgree ==
    fills # <<>> =>
        \A i \in 1..3 : devs[i] # None =>
            LET f == fills[i]
                band == IF f.export_csv = "red_fill" THEN "red"
                        ELSE IF f.export_csv = "yellow_fill" THEN "amber"
                        ELSE "green"
            IN  /\ f.export_session_csv = f.export_csv
                /\ f.generate_enhanced_report = f.export_csv
                /\ f.generate_ai_summary = band
                /\ f.get_sessions = IF band = "green" THEN "uncounted" ELSE band

\* a ratio of exactly 0.10 is amber for both counters and yellow in the exports
C6_Witness ==
    /\ fills # <<>>
    /\ devs[1] = Float(1, 10)
    /\ fills[1].get_sessions = "amber"
    /\ fills[1].generate_ai_summary = "amber"
    /\ fills[1].export_csv = "yellow_fill"

-----------------------------------------------------------------------------
(* The counters on their own: lines are added to and removed from a        *)
(* collection, and both sets of counters are computed over it.             *)

MaxLines == 2

\* register absent, 0 or 20; system absent or 20..23 (ratios 0, 0.05, 0.10,
\* 0.15); report absent or 23
AggTriples ==
    [recount_register : {None, Zero, Float(20, 1)},
     figure_105 : {None, Float(23, 1)},
     figure_dhis2 : {None} \cup {Float(20 + k, 1) : k \in 0..3}]

Counters(lines_seq) ==
    [get_sessions |-> SessionCounts(lines_seq),
     generate_ai_summary |-> SummaryCounts(lines_seq)]

WithoutIndex(s, i) == SubSeq(s, 1, i - 1) \o SubSeq(s, i + 1, Len(s))

AggInit ==
    /\ coll = <<>>
    /\ tally = Counters(<<>>)
    /\ args = [recount_register |-> None, figure_105 |-> None, figure_dhis2 |-> None]
    /\ devs = <<>>
    /\ fills = <<>>
    /\ StoreOff

AddLine ==
    /\ Len(coll) < MaxLines
    /\ \E t \in AggTriples :
           coll' = Append(coll, LineValues(t.recount_register, t.figure_105,
                                           t.figure_dhis2))
    /\ tally' = Counters(coll')
    /\ UNCHANGED <<engineVars, storeVars>>

RemoveLine ==
    /\ \E i \in 1..Len(coll) : coll' = WithoutIndex(coll, i)
    /\ tally' = Counters(coll')
    /\ UNCHANGED <<engineVars, storeVars>>

AggNext == AddLine \/ RemoveLine

AggSpec == AggInit /\ [][AggNext]_vars

\* coll and coll' differ by one line whose dev_dhis2_vs_reg is absent
AbsentLineAddedOrRemoved ==
    \/ \E i \in 1..Len(coll') :
           coll = WithoutIndex(coll', i) /\ coll'[i].dev_dhis2_vs_reg = None
    \/ \E i \in 1..Len(coll) :
           coll' = WithoutIndex(coll, i) /\ coll[i].dev_dhis2_vs_reg = None

PresentCount(lines_seq) ==
    Cardinality({i \in 1..Len(lines_seq) : lines_seq[i].dev_dhis2_vs_reg # None})

\* C7: adding or removing a line whose dev_dhis2_vs_reg is absent changes none
\* of the counters of get_sessions and generate_ai_summary, and the three
\* counters of generate_ai_summary add up to the number of lines whose
\* dev_dhis2_vs_reg is present.
C7_AbsentNeverCounted ==
    /\ [][AbsentLineAddedOrRemoved =>
            /\ tally'.get_sessions.red_count = tally.get_sessions.red_count
            /\ tally'.get_sessions.amber_count = tally.get_sessions.amber_count
            /\ tally'.generate_ai_summary = tally.generate_ai_summary]_vars
    /\ [](LET c == tally.generate_ai_summary
          IN  c.red_count + c.amber_count + c.green_count = PresentCount(coll))

\* a red line and a line with register 0 (ratio absent): only the first counts
C7_Witness ==
    /\ Len(coll) = 2
    /\ coll[1].dev_dhis2_vs_reg = Float(3, 20)
    /\ coll[2].recount_register = Zero
    /\ coll[2].figure_dhis2 = Float(20, 1)
    /\ coll[2].dev_dhis2_vs_reg = None
    /\ tally.get_sessions.red_count = 1
    /\ tally.generate_ai_summary.red_count = 1
    /\ tally.generate_ai_summary.green_count = 0

-----------------------------------------------------------------------------
(* Claims about the store, checked under Spec *)

LinesOf(rows, session_id) == {l \in rows : l.session_id = session_id}

\* the columns of a line row that a handler supplies
LineData(l) ==
    [indicator_id |-> l.indicator_id,
     recount_register |-> l.recount_register,
     figure_105 |-> l.figure_105,
     figure_dhis2 |-> l.figure_dhis2,
     dev_dhis2_vs_reg |-> l.dev_dhis2_vs_reg,
     dev_105_vs_reg |-> l.dev_105_vs_reg,
     dev_105_vs_dhis2 |-> l.dev_105_vs_dhis2]

\* C1: in every reachable state each stored line's three deviation fields are
\* what calculate_deviations returns for the counts stored in that line.
C1_StoredDeviations ==
    \A l \in lines :
        <<l.dev_dhis2_vs_reg, l.dev_105_vs_reg, l.dev_105_vs_dhis2>>
            = calculate_deviations(l.recount_register, l.figure_105, l.figure_dhis2)

\* an upload has stored the line register 0, report 45, system 50, whose only
\* present ratio is -0.10
C1_Witness ==
    /\ response.op = "upload_csv"
    /\ response.status = 200
    /\ Len(response.sessions) = 1
    /\ \E l \in lines :
           /\ l.session_id = response.sessions[1]
           /\ l.recount_register = Zero
           /\ l.figure_105 = Float(45, 1)
           /\ l.figure_dhis2 = Float(50, 1)
           /\ l.dev_dhis2_vs_reg = None
           /\ l.dev_105_vs_dhis2 = Float(-1, 10)

IsOnlyLine(session_id, recount_register, figure_105, figure_dhis2) ==
    /\ Cardinality(LinesOf(lines, session_id)) = 1
    /\ \A l \in LinesOf(lines, session_id) :
           /\ l.recount_register = recount_register
           /\ l.figure_105 = figure_105
           /\ l.figure_dhis2 = figure_dhis2

\* C8: for every session get_sessions returns, red_count is the number of its
\* lines with |dev_dhis2_vs_reg| > 0.10 and amber_count the number with
\* 0.05 < |dev_dhis2_vs_reg| <= 0.10, whatever the other two ratios are; a
\* session whose only line is register 50, system 58 has 1 and 0, one whose
\* only line is register 0, system 50, report 45 has 0 and 0.
C8_CountsUseSystemVsRegister ==
    \A i \in 1..Len(get_sessions) :
        LET r == get_sessions[i]
            present == {l \in LinesOf(lines, r.id) : l.dev_dhis2_vs_reg # None}
        IN  /\ r.red_count
                 = Cardinality({l \in present : IsHigh(l.dev_dhis2_vs_reg)})
            /\ r.amber_count
                 = Cardinality({l \in present : IsMedium(l.dev_dhis2_vs_reg)})
            /\ IsOnlyLine(r.id, Float(50, 1), None, Float(58, 1))
                   => r.red_count = 1 /\ r.amber_count = 0
            /\ IsOnlyLine(r.id, Zero, Float(45, 1), Float(50, 1))
                   => r.red_count = 0 /\ r.amber_count = 0

\* both sessions of the claim stand side by side; the second one's
\* dev_105_vs_dhis2 is in the medium band
C8_Witness ==
    /\ Len(get_sessions) = 2
    /\ \E i, j \in 1..2 :
           /\ IsOnlyLine(get_sessions[i].id, Float(50, 1), None, Float(58, 1))
           /\ get_sessions[i].red_count = 1
           /\ get_sessions[i].amber_count = 0
           /\ IsOnlyLine(get_sessions[j].id, Zero, Float(45, 1), Float(50, 1))
           /\ get_sessions[j].red_count = 0
           /\ get_sessions[j].amber_count = 0
           /\ \A l \in LinesOf(lines, get_sessions[j].id) :
                  IsMedium(l.dev_105_vs_dhis2)

\* the body names a facility or an indicator that does not exist
NamesMissingRow(body) ==
    \/ body.facility_id \notin Ids(facilities)
    \/ \E i \in 1..Len(body.lines) : body.lines[i].indicator_id \notin Ids(indicators)

\* C9: a POST /sessions whose facility id, or any of whose lines' indicator
\* ids, does not exist is answered 404 and leaves the stored sessions and lines
\* as they were, with nothing left to insert.
C9_MissingReferenceIs404 ==
    [][\A body \in PostBodies :
          (PostSessions(body) /\ NamesMissingRow(body)) =>
              /\ response'.op = "create_dqa_session"
              /\ response'.status = 404
              /\ pending' = <<>>
              /\ UNCHANGED <<sessions, lines>>]_vars

\* C10: a session becomes visible to other requests only in the step that
\* commits it, together with exactly one line per entry of lines_data, in
\* order, each carrying the session's id, and no other line appears with it;
\* while it is only flushed no committed row has its id.
C10_SessionWithAllLines ==
    /\ [][\A s \in sessions' :
             s.id \notin Ids(sessions) =>
                 LET own == InIdOrder(LinesOf(lines', s.id))
                     lines_data == Head(pending).lines_data
                 IN  /\ txn = <<s>>
                     /\ Len(own) = Len(lines_data)
                     /\ \A i \in 1..Len(own) : LineData(own[i]) = lines_data[i]
                     /\ lines' \ lines = LinesOf(lines', s.id)]_vars
    /\ [](txn # NoTxn => txn[1].id \notin Ids(sessions))

\* an upload has committed a session of two lines
C10_Witness ==
    /\ response.op = "upload_csv"
    /\ response.status = 200
    /\ Len(response.sessions) = 1
    /\ \E s \in sessions :
           /\ s.id = response.sessions[1]
           /\ Cardinality(LinesOf(lines, s.id)) = 2


\* C11: no step of any operation (POST /sessions, uploads, also for the
\* facility and period of a stored session, deletions, seed_data) adds a line
\* to a session that was already committed before the step.
C11_NoLineAddedLater ==
    [][\A s \in sessions : LinesOf(lines', s.id) \subseteq LinesOf(lines, s.id)]_vars

\* a second upload for the facility and period of a stored session has
\* committed: two sessions of the same facility and period, one line each
C11_Witness ==
    /\ response.op = "upload_csv"
    /\ response.status = 200
    /\ \E s, t \in sessions :
           /\ s.id < t.id
           /\ s.facility_id = t.facility_id
           /\ s.period = t.period
           /\ response.sessions = <<t.id>>
           /\ Cardinality(LinesOf(lines, s.id)) = 1
           /\ Cardinality(LinesOf(lines, t.id)) = 1


\* C12: DELETE /sessions/{session_id} of a stored session removes that session
\* and exactly the lines whose session_id is its id, leaves no line naming a
\* missing session, and leaves every other session and line, and all
\* facilities and indicators, as they were.
C12_DeleteCascades ==
    [][\A session_id \in Ids(sessions) :
          DeleteSession(session_id) =>
              /\ sessions' = {s \in sessions : s.id # session_id}
              /\ lines' = lines \ LinesOf(lines, session_id)
              /\ \A l \in lines' : l.session_id \in Ids(sessions')
              /\ UNCHANGED <<facilities, indicators>>
              /\ response'.status = 200]_vars

\* a session was deleted while another one, with its line, stays
C12_Witness ==
    /\ response.op = "delete_dqa_session"
    /\ response.status = 200
    /\ Cardinality(sessions) = 1
    /\ \E s \in sessions : Cardinality(LinesOf(lines, s.id)) = 1
    /\ Cardinality(lines) = 1


\* C13: over any sequence of creations and deletions, a row that a step adds
\* to dqa_sessions (to dqa_lines) has an id that no session (line) held
\* before, deleted ones included.
C13_IdsNeverReused ==
    [][/\ \A s \in sessions' \ sessions : s.id \notin issued.sessions
       /\ \A l \in lines' \ lines : l.id \notin issued.lines]_vars


\* C14 as stated: once the facilities and indicators are there, no step of any
\* operation, a run of seed_data included, adds, changes or removes one.
C14_ReferenceDataImmutable ==
    [][(facilities # {} /\ indicators # {}) =>
           UNCHANGED <<facilities, indicators>>]_vars

\* C14, amended: once seed_data of this program has run on the database, no
\* step of any operation (POST /sessions, upload, deletion, a later run of
\* seed_data) adds, changes or removes a facility or an indicator.
C14_ImmutableAfterFirstRun ==
    [][started => UNCHANGED <<facilities, indicators>>]_vars

\* seed_data has run on a database that held the deprecated MA12, and a
\* session was deleted since: the seeded facilities and the two kept
\* indicators are there
C14_Witness ==
    /\ started
    /\ response.op = "delete_dqa_session"
    /\ response.status = 200
    /\ facilities = AddAll({}, facilities_data)
    /\ {i.code : i \in indicators} = {"MA04", "MA05a"}
    /\ {i.id : i \in indicators} = {1, 3}


\* C16: in every reachable state get_sessions returns one summary for each
\* stored session and none for any other, and its line_count, red_count and
\* amber_count are those of the lines stored for that session in this state.
C16_CountsOfStoredLines ==
    /\ Len(get_sessions) = Cardinality(sessions)
    /\ {get_sessions[i].id : i \in 1..Len(get_sessions)} = Ids(sessions)
    /\ \A i \in 1..Len(get_sessions) :
           LET r == get_sessions[i]
               own == LinesOf(lines, r.id)
               present == {l \in own : l.dev_dhis2_vs_reg # None}
           IN  /\ r.line_count = Cardinality(own)
               /\ r.red_count + r.amber_count <= Cardinality(own)
               /\ r.red_count
                    = Cardinality({l \in present : IsHigh(l.dev_dhis2_vs_reg)})
               /\ r.amber_count
                    = Cardinality({l \in present : IsMedium(l.dev_dhis2_vs_reg)})

\* seed_data has removed the line on the deprecated MA12 (register 50, system
\* 58: high) from session 1, whose summary now counts only the line on MA04
\* (register 100, system 110: medium)
C16_Witness ==
    /\ started
    /\ LegacyLineMA12 \notin lines
    /\ LinesOf(lines, 1) = {LegacyLineMA04}
    /\ Len(get_sessions) >= 1
    /\ get_sessions[1].id = 1
    /\ get_sessions[1].line_count = 1
    /\ get_sessions[1].red_count = 0
    /\ get_sessions[1].amber_count = 1


-----------------------------------------------------------------------------
(* Claims about one upload, checked under UploadSpec *)

\* the step is an upload_csv that passed both passes and goes on to create
\* the sessions of the file request'.csv_rows
Accepted == pending = <<>> /\ pending' # <<>> /\ pending'[1].op = "upload_csv"

IsCommentsRow(r) == Upper(Strip(r.indicator_name)) = "COMMENTS"

NonComments(csv_rows) == SelectSeq(csv_rows, LAMBDA r : ~IsCommentsRow(r))

\* the facilities with the row's name and district
FacilitiesOfRow(r) ==
    {f \in facilities : f.name = Strip(r.facility) /\ f.district = Strip(r.district)}

\* the indicators with the row's code
IndicatorsByCode(r) == {i \in indicators : i.code = Strip(r.indicator_code)}

\* the indicators with the row's code if it has one, else with its name
IndicatorsByCodeElseName(r) ==
    IF Strip(r.indicator_code) # "" THEN IndicatorsByCode(r)
    ELSE {i \in indicators : i.name = Strip(r.indicator_name)}

\* the row belongs to the session dict q: its period, and a facility of its
\* name and district
InGroup(r, q) ==
    /\ Strip(r.period) = q.session_data.period
    /\ q.session_data.facility_id \in Ids(FacilitiesOfRow(r))

\* every non-COMMENTS row is in a session dict of the queue, and the lines of
\* each session dict are, in order, its rows, each with the id of an indicator
\* that IndicatorsOfRow gives for the row
RowsAttached(csv_rows, queue, IndicatorsOfRow(_)) ==
    LET rows == NonComments(csv_rows)
    IN  /\ \A k \in 1..Len(rows) : \E j \in 1..Len(queue) : InGroup(rows[k], queue[j])
        /\ \A j \in 1..Len(queue) :
               LET own == SelectSeq(rows, LAMBDA r : InGroup(r, queue[j]))
                   lines_data == queue[j].lines_data
               IN  /\ Len(own) = Len(lines_data)
                   /\ \A k \in 1..Len(own) :
                          lines_data[k].indicator_id
                              \in Ids(IndicatorsOfRow(own[k]))

\* the step commits a session with the facility id of the session dict and
\* lines with the indicator ids of its lines
StoredAsQueued ==
    txn # NoTxn /\ txn' = NoTxn =>
        LET q == Head(pending)
            own == InIdOrder(LinesOf(lines', txn[1].id))
        IN  /\ txn[1] \in sessions'
            /\ txn[1].facility_id = q.session_data.facility_id
            /\ [k \in 1..Len(own) |-> own[k].indicator_id]
                   = [k \in 1..Len(q.lines_data) |-> q.lines_data[k].indicator_id]

\* C17 as stated: an upload that is accepted attaches each non-COMMENTS row to
\* the facility of the row's name and district and to the indicator whose code
\* is the row's indicator_code, and the stored session and lines carry the ids
\* of those.
C17_MatchedByCode ==
    [][/\ Accepted => RowsAttached(request'.csv_rows, pending', IndicatorsByCode)
       /\ StoredAsQueued]_vars

\* C17, amended: ... and to the indicator whose code is the row's
\* indicator_code when the row has one, otherwise to the indicator whose name
\* is the row's indicator_name.
C17_MatchedByCodeElseName ==
    [][/\ Accepted =>
              RowsAttached(request'.csv_rows, pending', IndicatorsByCodeElseName)
       /\ StoredAsQueued]_vars

\* an upload has stored one session of facility 1 with a line on MA04, given
\* by its code, and a line on MA05a, given by its name
C17_Witness ==
    /\ response.op = "upload_csv"
    /\ response.status = 200
    /\ Cardinality(sessions) = 1
    /\ \A s \in sessions :
           /\ s.facility_id = 1
           /\ s.period = "2024-Q1"
           /\ {l.indicator_id : l \in LinesOf(lines, s.id)} = {1, 2}
    /\ {<<i.id, i.code>> : i \in {d \in indicators : d.id \in {1, 2}}}
           = {<<1, "MA04">>, <<2, "MA05a">>}


\* the team the claim gives a session dict: the form field when it is given
\* and not empty, else the team column of the first row of the group when that
\* is not empty, else 'csv_upload'
ExpectedTeam(team, first_row) ==
    IF team # None /\ team # Str("") THEN team.s
    ELSE IF Strip(first_row.team) # "" THEN Strip(first_row.team)
    ELSE "csv_upload"

\* C18: an upload that is accepted gives each session dict the team of
\* ExpectedTeam for the first non-COMMENTS row of its facility and period;
\* create_session stores that team, and no stored session of an upload has an
\* empty team.
C18_TeamOfUpload ==
    /\ [][/\ Accepted =>
                 \A j \in 1..Len(pending') :
                     LET own == SelectSeq(NonComments(request'.csv_rows),
                                    LAMBDA r : InGroup(r, pending'[j]))
                     IN  /\ own # <<>>
                         /\ pending'[j].session_data.team
                                = ExpectedTeam(request'.team, own[1])
          /\ txn # NoTxn /\ txn' = NoTxn =>
                 /\ txn[1] \in sessions'
                 /\ txn[1].team = Head(pending).session_data.team]_vars
    /\ [](\A s \in sessions : s.team # "")

\* an upload has stored a session with the team of its first row's column,
\* and one with the default
C18_Witness ==
    /\ response.op = "upload_csv"
    /\ response.status = 200
    /\ {s.team : s \in sessions} = {"Team A", "csv_upload"}


-----------------------------------------------------------------------------
(* Further claims about the store, checked under Spec *)

\* C19: a POST /sessions whose facility and indicators all exist succeeds,
\* with or without a comment in the body: it hands create_session one session
\* dict, whose comments are the comment of the body (None when there was
\* none), and sends no error.
C19_CommentStored ==
    [][\A body \in PostBodies :
          (PostSessions(body) /\ ~NamesMissingRow(body)) =>
              /\ Len(pending') = 1
              /\ pending'[1].session_data.comments = body.comments
              /\ UNCHANGED response]_vars

\* C20: in every reachable state each stored line names a stored session and
\* a stored indicator, and each stored session names a stored facility.
C20_ReferentialIntegrity ==
    /\ \A l \in lines :
           /\ l.session_id \in Ids(sessions)
           /\ l.indicator_id \in Ids(indicators)
    /\ \A s \in sessions : s.facility_id \in Ids(facilities)

\* seed_data has removed the deprecated MA12 (id 2) and its line from a
\* database that also had a line on MA04, and an upload has added a session
C20_Witness ==
    /\ started
    /\ Ids(indicators) = {1, 3}
    /\ LegacyLineMA04 \in lines
    /\ response.op = "upload_csv"
    /\ response.status = 200
    /\ Cardinality(sessions) = 2
    /\ Cardinality(lines) = 2


-----------------------------------------------------------------------------
(* Claims about one upload and its file, checked under UploadSpec *)

\* the step in which upload_csv receives the file request.csv_rows, the one
\* request of UploadSpec
Received ==
    /\ response = NoResponse
    /\ Idle
    /\ \/ response'.op = "upload_csv"
       \/ pending' # <<>> /\ pending'[1].op = "upload_csv"

\* a non-COMMENTS row with no facility of its name and district, or with no
\* indicator of its code (of its name, when it has no code)
NamesMissing(r) ==
    /\ ~IsCommentsRow(r)
    /\ FacilitiesOfRow(r) = {} \/ IndicatorsByCodeElseName(r) = {}

\* C21: an upload whose file has a non-COMMENTS row that names a facility or
\* an indicator that is not there, wherever the row stands in the file, is
\* answered 400, and no session and no line of the file is stored or left to
\* be stored.
C21_AllOrNothing ==
    [][(Received /\ \E k \in 1..Len(request.csv_rows) :
                        NamesMissing(request.csv_rows[k])) =>
           /\ response'.op = "upload_csv"
           /\ response'.status = 400
           /\ pending' = <<>>
           /\ UNCHANGED <<sessions, lines, txn>>]_vars


\* the (facility id, period) pairs of the non-COMMENTS rows of a file
PairsOf(csv_rows) ==
    LET rows == NonComments(csv_rows)
    IN  UNION {{<<f.id, Strip(rows[k].period)>> : f \in FacilitiesOfRow(rows[k])} :
                  k \in 1..Len(rows)}

PairOf(q) == <<q.session_data.facility_id, q.session_data.period>>

\* the step is the commit of create_session
Committed == txn # NoTxn /\ txn' = NoTxn

\* C22: an upload that is accepted has one session to create for each
\* (facility id, period) pair of its non-COMMENTS rows, with one line for each
\* such row, in the session of the row's pair; each commit adds one session
\* that was not stored, with exactly those lines, and leaves the sessions
\* already stored, also one of the same facility and period, and their lines
\* as they were; the response lists as many created sessions as there are
\* pairs.
C22_OneSessionPerPair ==
    [][/\ Accepted =>
              /\ {PairOf(pending'[j]) : j \in 1..Len(pending')}
                     = PairsOf(request'.csv_rows)
              /\ Len(pending') = Cardinality(PairsOf(request'.csv_rows))
              /\ RowsAttached(request'.csv_rows, pending', IndicatorsByCodeElseName)
       /\ Committed =>
              /\ txn[1].id \notin Ids(sessions)
              /\ sessions' = sessions \cup {txn[1]}
              /\ PairOf(Head(pending)) = <<txn[1].facility_id, txn[1].period>>
              /\ lines \subseteq lines'
              /\ lines' \ lines = LinesOf(lines', txn[1].id)
              /\ Cardinality(lines' \ lines) = Len(Head(pending).lines_data)
       /\ (Committed /\ pending' = <<>>) =>
              /\ response'.status = 200
              /\ Len(response'.sessions) = Cardinality(PairsOf(request.csv_rows))
              /\ response'.sessions[Len(response'.sessions)] = txn[1].id
       /\ (Received /\ response'.status = 200) =>
              /\ PairsOf(request.csv_rows) = {}
              /\ UNCHANGED <<sessions, lines>>]_vars

\* a session of facility 1 and 2024-Q1 was stored, without lines; an upload of
\* two rows of that facility and period has added a second one with two lines
C22_Witness ==
    /\ response.op = "upload_csv"
    /\ response.status = 200
    /\ response.sessions = <<2>>
    /\ LegacySession \in sessions
    /\ LinesOf(lines, 1) = {}
    /\ \E s \in sessions :
           /\ s.id = 2
           /\ s.facility_id = LegacySession.facility_id
           /\ s.period = LegacySession.period
           /\ Cardinality(LinesOf(lines, 2)) = 2


\* the places in the file of the COMMENTS rows with the facility name,
\* district and period of the session dict q
CommentsRowsOf(csv_rows, q) ==
    {k \in 1..Len(csv_rows) : IsCommentsRow(csv_rows[k]) /\ InGroup(csv_rows[k], q)}

\* the comments the claim gives the session dict q: the text of the last of
\* those rows (a blank text is no comment), absent when there is none
ExpectedComments(csv_rows, q) ==
    LET at == CommentsRowsOf(csv_rows, q)
        text == Strip(csv_rows[SetMax(at)].recount_register)
    IN  IF at = {} \/ text = "" THEN None ELSE Str(text)

\* a count of the row is text that float() rejects
Unparsable(r) ==
    ValueError \in {ParseCell(r.recount_register), ParseCell(r.figure_105),
                    ParseCell(r.figure_dhis2)}

\* C23: COMMENTS rows (in any case of the letters) are no lines and are not
\* validated: an upload is refused only for a non-COMMENTS row, a file of
\* COMMENTS rows alone is answered 200 with no session, and an accepted upload
\* has as many lines as non-COMMENTS rows; each session it creates has for
\* comments the text of the last COMMENTS row of its facility name, district
\* and period, and none when there is no such row; create_session stores them.
C23_CommentsRows ==
    [][/\ (Received /\ response'.status \in {400, 500}) =>
              \E k \in 1..Len(request.csv_rows) :
                  \/ NamesMissing(request.csv_rows[k])
                  \/ ~IsCommentsRow(request.csv_rows[k])
                         /\ Unparsable(request.csv_rows[k])
       /\ (Received /\ NonComments(request.csv_rows) = <<>>) =>
              /\ response' = Respond("upload_csv", 200, <<>>)
              /\ pending' = <<>>
              /\ UNCHANGED <<sessions, lines>>
       /\ Accepted =>
              /\ TotalLines(pending') = Len(NonComments(request'.csv_rows))
              /\ \A j \in 1..Len(pending') :
                     pending'[j].session_data.comments
                         = ExpectedComments(request'.csv_rows, pending'[j])
       /\ Committed =>
              /\ txn[1] \in sessions'
              /\ txn[1].comments = Head(pending).session_data.comments]_vars

\* the file has the rows COMMENTS 'Register incomplete' and, after it,
\* comments 'Recount repeated' for the facility and period of its one other
\* row: the session row flushed for it has the second text
C23_Witness ==
    /\ Len(request.csv_rows) = 3
    /\ \E i, j \in 1..3 :
           /\ i < j
           /\ request.csv_rows[i].indicator_name = "COMMENTS"
           /\ request.csv_rows[i].recount_register = "Register incomplete"
           /\ request.csv_rows[j].indicator_name = "comments"
           /\ request.csv_rows[j].recount_register = "Recount repeated"
    /\ Len(pending) = 1
    /\ Len(pending[1].lines_data) = 1
    /\ txn # NoTxn
    /\ txn[1].comments = Str("Recount repeated")


\* a non-COMMENTS row whose code is not empty and is no indicator's, whatever
\* its name, or whose code and name are both empty
HasNoIndicator(r) ==
    /\ ~IsCommentsRow(r)
    /\ \/ Strip(r.indicator_code) # "" /\ IndicatorsByCode(r) = {}
       \/ Strip(r.indicator_code) = "" /\ Strip(r.indicator_name) = ""

-----------------------------------------------------------------------------
(* Claims about seed_data and the summaries, checked under Spec *)

\* the first run of seed_data on the database
FirstSeed == ~started /\ started'

\* C25: seed_data adds facilities only to an empty facilities table and
\* indicators only to an indicators table that is empty once the deprecated
\* ones are deleted; on every state reached after it has run, running it
\* again would commit the tables as they are; and none of the seven codes it
\* seeds is deprecated.
C25_SeedIdempotent ==
    /\ [][FirstSeed =>
             /\ facilities # {} => facilities' = facilities
             /\ facilities = {} => facilities' = AddAll({}, facilities_data)
             /\ LET kept == {i \in indicators : i.code \notin deprecated_codes}
                IN  /\ kept # {} => indicators' = kept
                    /\ kept = {} => indicators' = AddAll({}, indicators_data)]_vars
    /\ [](started =>
             /\ SeedFacilities = facilities
             /\ SeedIndicators = indicators
             /\ SeedLines = lines)
    /\ [](/\ Len(indicators_data) = 7
          /\ {indicators_data[k].code : k \in 1..7} \cap deprecated_codes = {})

\* seed_data has filled a new database, and an upload has stored a session
C25_Witness ==
    /\ started
    /\ facilities = AddAll({}, facilities_data)
    /\ indicators = AddAll({}, indicators_data)
    /\ Cardinality(indicators) = 7
    /\ sessions # {}
    /\ lines # {}


\* C26: in every reachable state the statistics of get_dashboard_stats are:
\* total_sessions the number of stored sessions; assessed_facilities the
\* number of facilities with a session, between 0 and total_facilities; one
\* entry for each team of a session, whose facilities_assessed is the number
\* of facilities among the team's sessions and at most assessed_facilities.
C26_DashboardStats ==
    LET stats == get_dashboard_stats
        assessed == {s.facility_id : s \in sessions}
        progress == stats.team_progress
    IN  /\ stats.total_sessions = Cardinality(sessions)
        /\ stats.assessed_facilities = Cardinality(assessed)
        /\ 0 <= stats.assessed_facilities
        /\ stats.assessed_facilities <= stats.total_facilities
        /\ stats.total_facilities - stats.assessed_facilities >= 0
        /\ {progress[t].team : t \in 1..Len(progress)} = {s.team : s \in sessions}
        /\ Len(progress) = Cardinality({s.team : s \in sessions})
        /\ \A t \in 1..Len(progress) :
               /\ progress[t].facilities_assessed
                    = Cardinality({s.facility_id :
                                     s \in {x \in sessions : x.team = progress[t].team}})
               /\ progress[t].facilities_assessed <= stats.assessed_facilities

\* two sessions of one facility, of two teams: one facility is assessed, by
\* each of the teams
C26_Witness ==
    /\ Cardinality(sessions) = 2
    /\ Cardinality({s.facility_id : s \in sessions}) = 1
    /\ Cardinality({s.team : s \in sessions}) = 2
    /\ get_dashboard_stats.total_sessions = 2
    /\ get_dashboard_stats.assessed_facilities = 1
    /\ get_dashboard_stats.total_facilities = 3
    /\ Len(get_dashboard_stats.team_progress) = 2
    /\ \A t \in 1..2 : get_dashboard_stats.team_progress[t].facilities_assessed = 1


\* the line's dev_dhis2_vs_reg is present and its size is above 0.05
AboveLow(l) ==
    /\ l.dev_dhis2_vs_reg # None
    /\ FGt(FAbs(l.dev_dhis2_vs_reg), Lit005)

\* C27: for every summary of get_sessions, line_count is the number of the
\* session's lines; red_count + amber_count is the number of its lines whose
\* dev_dhis2_vs_reg is present and above 0.05 in size, each counted once, so
\* it is at most line_count and equal to it only if every line is such a
\* line; a session without lines has 0 for all three.
C27_CountsWithinLines ==
    \A i \in 1..Len(get_sessions) :
        LET r == get_sessions[i]
            own == LinesOf(lines, r.id)
        IN  /\ r.line_count = Cardinality(own)
            /\ r.red_count >= 0
            /\ r.amber_count >= 0
            /\ r.red_count + r.amber_count
                 = Cardinality({l \in own : AboveLow(l)})
            /\ r.red_count + r.amber_count <= r.line_count
            /\ r.red_count + r.amber_count = r.line_count
                   => \A l \in own : AboveLow(l)
            /\ own = {} =>
                   r.line_count = 0 /\ r.red_count = 0 /\ r.amber_count = 0

\* a session whose lines seed_data has deleted, with 0, 0 and 0, beside a
\* session of two lines, one high and one with an absent ratio, with 2, 1, 0
C27_Witness ==
    /\ Len(get_sessions) = 2
    /\ get_sessions[1].line_count = 0
    /\ get_sessions[1].red_count = 0
    /\ get_sessions[1].amber_count = 0
    /\ get_sessions[2].line_count = 2
    /\ get_sessions[2].red_count = 1
    /\ get_sessions[2].amber_count = 0
    /\ \E l \in LinesOf(lines, get_sessions[2].id) : l.dev_dhis2_vs_reg = None

====
